---- MODULE Spec2Model ----
(***************************************************************************)
(* Powerball dashboard (src/src/App.jsx): the CSV loader, parseCsv, the    *)
(* picker evaluation (pickAnalysis) and the picker's event handlers.       *)
(*                                                                         *)
(* Representation.  A JavaScript string is a sequence of one-character      *)
(* strings.  A JavaScript number is a record [k, v]: k = "fin" with v the   *)
(* value in TENTHS (7 is 70, 7.9 is 79, -0.5 is -5), k = "nan", or          *)
(* k = "inf" with v the sign.  Numbers known to be finite (a draw's balls,  *)
(* numericMain) are kept as the bare value in tenths.  A timestamp is the   *)
(* day ordinal computed by DateParse, not milliseconds: only its order and  *)
(* equality are observable in the code modelled here.                      *)
(***************************************************************************)
EXTENDS Integers, Sequences, FiniteSets

VARIABLES
    draws,            \* useState([])            App.jsx:77
    status,           \* useState('loading')     App.jsx:78
    mainPick,         \* useState(INITIAL_MAIN_PICK)
    powerballPick,    \* useState(INITIAL_POWERBALL_PICK)
    isTicketChecked,  \* useState(false)
    isMounted,        \* the effect's guard      App.jsx:84
    pc,               \* fetchData's position: "fetch", "text", "done"
    response,         \* what the network delivered to fetchData so far
    rows,             \* ParseSpec: the data rows of the CSV file
    parsed,           \* ParseSpec: parseCsv's result
    pstep             \* ParseSpec: "input" or "parsed"

vars == <<draws, status, mainPick, powerballPick, isTicketChecked, isMounted,
          pc, response, rows, parsed, pstep>>

appVars == <<draws, status, mainPick, powerballPick, isTicketChecked,
             isMounted, pc, response>>

parseVars == <<rows, parsed, pstep>>

-----------------------------------------------------------------------------
(* Program constants *)

MAIN_RANGE_min == 1

MAIN_RANGE_max == 69

POWERBALL_RANGE_min == 1

POWERBALL_RANGE_max == 26

INITIAL_MAIN_PICK == << <<"0","7">>, <<"1","1">>, <<"1","9">>, <<"2","7">>, <<"5","3">> >>

INITIAL_POWERBALL_PICK == <<"1","0">>

-----------------------------------------------------------------------------
(* JavaScript strings and numbers *)

Digits == <<"0","1","2","3","4","5","6","7","8","9">>

IsDigit(c) == \E d \in 1..10 : Digits[d] = c

DigitVal(c) == (CHOOSE d \in 1..10 : Digits[d] = c) - 1

AllDigits(s) == \A i \in 1..Len(s) : IsDigit(s[i])

RECURSIVE DigitsVal(_)
DigitsVal(s) ==
    IF s = <<>> THEN 0
    ELSE 10 * DigitsVal(SubSeq(s, 1, Len(s) - 1)) + DigitVal(s[Len(s)])

WhiteSpace == {" ", "\t", "\n", "\r"}

RECURSIVE TrimStart(_)
TrimStart(s) ==
    IF s # <<>> /\ s[1] \in WhiteSpace THEN TrimStart(Tail(s)) ELSE s

RECURSIVE TrimEnd(_)
TrimEnd(s) ==
    IF s # <<>> /\ s[Len(s)] \in WhiteSpace
    THEN TrimEnd(SubSeq(s, 1, Len(s) - 1)) ELSE s

\* String.prototype.trim
Trim(s) == TrimEnd(TrimStart(s))

\* The places where sep occurs in s.
Occurrences(s, sep) ==
    {i \in 1..(Len(s) - Len(sep) + 1) : SubSeq(s, i, i + Len(sep) - 1) = sep}

Least(S) == CHOOSE x \in S : \A y \in S : x <= y

\* String.prototype.split with a non-empty string separator.
RECURSIVE Split(_, _)
Split(s, sep) ==
    IF Occurrences(s, sep) = {} THEN <<s>>
    ELSE LET i == Least(Occurrences(s, sep))
         IN  <<SubSeq(s, 1, i - 1)>> \o Split(SubSeq(s, i + Len(sep), Len(s)), sep)

\* s.split(/\r?\n/): a carriage return right before a line feed belongs to
\* the separator.
SplitLines(s) ==
    LET pieces == Split(s, <<"\n">>)
        Strip(i) ==
            IF i < Len(pieces) /\ pieces[i] # <<>> /\ pieces[i][Len(pieces[i])] = "\r"
            THEN SubSeq(pieces[i], 1, Len(pieces[i]) - 1)
            ELSE pieces[i]
    IN  [i \in 1..Len(pieces) |-> Strip(i)]

NaN == [k |-> "nan", v |-> 0]

Infinity(sign) == [k |-> "inf", v |-> sign]

Fin(v) == [k |-> "fin", v |-> v]

Null == [k |-> "null", v |-> 0]

INFINITY_LITERAL == <<"I","n","f","i","n","i","t","y">>

\* An unsigned StrDecimalLiteral: digits with an optional fraction, or
\* Infinity.  The value is in tenths, so one fraction digit is carried: the
\* strings of this model have at most one.  Exponents and 0x/0o/0b
\* literals are not among the model's strings.
UnsignedNumber(s, sign) ==
    IF s = INFINITY_LITERAL THEN Infinity(sign)
    ELSE LET dots == {i \in 1..Len(s) : s[i] = "."}
         IN  IF dots = {}
             THEN IF s # <<>> /\ AllDigits(s) THEN Fin(sign * 10 * DigitsVal(s)) ELSE NaN
             ELSE LET p  == Least(dots)
                      ip == SubSeq(s, 1, p - 1)
                      fp == SubSeq(s, p + 1, Len(s))
                  IN  IF AllDigits(ip) /\ AllDigits(fp) /\ Len(ip) + Len(fp) > 0
                      THEN Fin(sign * (10 * DigitsVal(ip)
                                       + (IF fp = <<>> THEN 0 ELSE DigitVal(fp[1]))))
                      ELSE NaN

\* Number(string): StringToNumber.  White space is trimmed and the empty
\* string is 0.
Number(s) ==
    LET t == Trim(s)
    IN  IF t = <<>> THEN Fin(0)
        ELSE IF t[1] = "-" THEN UnsignedNumber(Tail(t), -1)
        ELSE IF t[1] = "+" THEN UnsignedNumber(Tail(t), 1)
        ELSE UnsignedNumber(t, 1)

\* Number.isFinite
IsFinite(x) == x.k = "fin"

\* Math.floor of a value in tenths (\div rounds toward minus infinity).
Floor(v) == (v \div 10) * 10

Max(a, b) == IF a >= b THEN a ELSE b

Min(a, b) == IF a <= b THEN a ELSE b

RECURSIVE NatToString(_)
NatToString(n) ==
    IF n < 10 THEN <<Digits[n + 1]>>
    ELSE NatToString(n \div 10) \o <<Digits[(n % 10) + 1]>>

\* Number.prototype.toString of an integer value (in tenths).
NumberToString(v) ==
    IF v < 0 THEN <<"-">> \o NatToString((0 - v) \div 10) ELSE NatToString(v \div 10)

\* clampInput without Math.min(max, ...).
clampInput_noUpperBound(rawValue, max) ==
    IF rawValue = <<>> THEN <<>>
    ELSE LET numeric == Number(rawValue)
         IN  IF ~IsFinite(numeric) THEN <<>>
             ELSE NumberToString(Max(MAIN_RANGE_min * 10, Floor(numeric.v)))

\* clampInput(rawValue, max), App.jsx:21-27
clampInput(rawValue, max) ==
    IF rawValue = <<>> THEN <<>>
    ELSE LET numeric == Number(rawValue)
         IN  IF ~IsFinite(numeric) THEN <<>>
             ELSE NumberToString(Max(MAIN_RANGE_min * 10, Min(max * 10, Floor(numeric.v))))

-----------------------------------------------------------------------------
(* Dates *)

MonthShort ==
    << <<"J","a","n">>, <<"F","e","b">>, <<"M","a","r">>, <<"A","p","r">>,
       <<"M","a","y">>, <<"J","u","n">>, <<"J","u","l">>, <<"A","u","g">>,
       <<"S","e","p">>, <<"O","c","t">>, <<"N","o","v">>, <<"D","e","c">> >>

InvalidDate == [valid |-> FALSE, y |-> 0, m |-> 0, d |-> 0]

\* new Date(rawDate) for the file's month/day/year strings.  Any other string
\* is implementation-defined in ECMAScript; the other date fields of this
\* model (letters, the empty string) are Invalid Date in every engine.  Days
\* past the end of a month, which engines roll over, are not among the
\* model's strings.
DateParse(s) ==
    LET parts == Split(s, <<"/">>)
    IN  IF /\ Len(parts) = 3
           /\ \A i \in 1..3 : parts[i] # <<>> /\ AllDigits(parts[i])
           /\ DigitsVal(parts[1]) \in 1..12
           /\ DigitsVal(parts[2]) \in 1..31
        THEN [valid |-> TRUE, y |-> DigitsVal(parts[3]),
              m |-> DigitsVal(parts[1]), d |-> DigitsVal(parts[2])]
        ELSE InvalidDate

\* date.getTime(): a day ordinal that orders dates as milliseconds do.
GetTime(date) == (date.y * 12 + (date.m - 1)) * 31 + date.d

\* date.toLocaleDateString('en-US', {month: 'short', day: 'numeric', year: 'numeric'})
ToLocaleDateString(date) ==
    MonthShort[date.m] \o <<" ">> \o NatToString(date.d) \o <<",", " ">>
        \o NatToString(date.y)

-----------------------------------------------------------------------------
(* parseCsv, App.jsx:29-74 *)

QUOTE == "\""

\* line.replace(/^"|"$/g, '')
StripQuotes(line) ==
    LET a == IF line # <<>> /\ line[1] = QUOTE THEN Tail(line) ELSE line
    IN  IF a # <<>> /\ a[Len(a)] = QUOTE THEN SubSeq(a, 1, Len(a) - 1) ELSE a

RECURSIVE Sum(_)
Sum(s) == IF s = <<>> THEN 0 ELSE s[1] + Sum(Tail(s))

\* winningNumbers.split(' ').map(Number).filter(Number.isFinite), in tenths
RECURSIVE FiniteNumbers(_)
FiniteNumbers(tokens) ==
    IF tokens = <<>> THEN <<>>
    ELSE LET n == Number(tokens[1])
         IN  (IF IsFinite(n) THEN <<n.v>> ELSE <<>>) \o FiniteNumbers(Tail(tokens))

\* The callback of the second .map (lines 36-71): <<>> for null, else <<record>>.
parseLine(line) ==
    LET split    == Split(StripQuotes(line), <<QUOTE, ",", QUOTE>>)
        values   == [i \in 1..Len(split) |-> Trim(split[i])]
        rawDate  == values[1]
        winningNumbers == IF Len(values) >= 2 THEN values[2] ELSE <<>>
        date     == DateParse(rawDate)
        numbers  == FiniteNumbers(Split(winningNumbers, <<" ">>))
        powerball   == numbers[Len(numbers)]
        mainNumbers == SubSeq(numbers, 1, Len(numbers) - 1)
        multiplier  == IF Len(values) >= 3 /\ values[3] # <<>>
                       THEN Number(values[3]) ELSE Null
    IN  IF rawDate = <<>> \/ winningNumbers = <<>> THEN <<>>
        ELSE IF ~date.valid THEN <<>>
        ELSE IF numbers = <<>> THEN <<>>
        ELSE << [dateMs      |-> GetTime(date),
                 dateLabel   |-> ToLocaleDateString(date),
                 mainNumbers |-> mainNumbers,
                 powerball   |-> powerball,
                 multiplier  |-> multiplier,
                 mainSum     |-> Sum(mainNumbers)] >>

\* .map(trim).filter(Boolean).map(parseLine).filter(Boolean)
RECURSIVE parseLines(_)
parseLines(lines) ==
    IF lines = <<>> THEN <<>>
    ELSE (IF Trim(lines[1]) = <<>> THEN <<>> ELSE parseLine(Trim(lines[1])))
         \o parseLines(Tail(lines))

\* The comparator of line 73.
compareDate_descending(a, b) == b.dateMs - a.dateMs

compareDate(a, b) == a.dateMs - b.dateMs

\* Array.prototype.sort with compareDate: stable (ES2019), so an element's
\* place is the number of elements that compare below it, or equal to it
\* and ahead of it in the array.
sortByDate(s) ==
    LET below(j, i) == LET c == compareDate(s[j], s[i]) IN c < 0 \/ (c = 0 /\ j < i)
        rank == [i \in 1..Len(s) |-> Cardinality({j \in 1..Len(s) : below(j, i)})]
    IN  [p \in 1..Len(s) |-> s[CHOOSE i \in 1..Len(s) : rank[i] = p - 1]]

parseCsv(text) ==
    LET lines     == SplitLines(Trim(text))
        dataLines == Tail(lines)
    IN  sortByDate(parseLines(dataLines))

-----------------------------------------------------------------------------
(* The CSV file served at CSV_URL: a header line, then one line per draw,    *)
(* every field quoted (spec, External interfaces).                          *)

Header == <<QUOTE, "D", "r", "a", "w", " ", "D", "a", "t", "e", QUOTE, ",", QUOTE, "W", "i", "n", "n", "i", "n", "g", " ", "N", "u", "m", "b", "e", "r", "s", QUOTE, ",", QUOTE, "M", "u", "l", "t", "i", "p", "l", "i", "e", "r", QUOTE>>

DATE_A == <<"0", "1", "/", "0", "2", "/", "2", "0", "1", "0">>

DATE_B == <<"0", "1", "/", "0", "6", "/", "2", "0", "1", "0">>

DATE_C == <<"0", "1", "/", "0", "9", "/", "2", "0", "1", "0">>

NotADate == <<"n", "/", "a">>

\* 07 11 19 27 53 10: the initial pick and its Powerball
NUMS_JACKPOT == <<"0", "7", " ", "1", "1", " ", "1", "9", " ", "2", "7", " ", "5", "3", " ", "1", "0">>

NUMS_FOUR_PB == <<"0", "7", " ", "1", "1", " ", "1", "9", " ", "2", "7", " ", "4", "0", " ", "1", "0">>

NUMS_FOUR == <<"0", "7", " ", "1", "1", " ", "1", "9", " ", "2", "7", " ", "4", "1", " ", "1", "2">>

NUMS_THREE_PB == <<"0", "7", " ", "1", "1", " ", "1", "9", " ", "2", "8", " ", "4", "1", " ", "1", "0">>

NUMS_LOW_HIGH == <<"0", "1", " ", "0", "5", " ", "0", "7", " ", "1", "9", " ", "6", "9", " ", "2", "6">>

\* a non-numeric token among numeric ones
NUMS_MIXED == <<"0", "7", " ", "x", " ", "1", "0">>

\* no numeric token
NUMS_TEXT == <<"x">>

\* no numeric token, two spaces between the words
NUMS_TEXT_GAP == <<"x", " ", " ", "y">>

\* A data row of the file: its fields as written between the quotes, the
\* number of columns (0: a blank line), white space around the line and
\* its fields, and the line ending.
Row(date, nums, mult, cols, pad, cr) ==
    [date |-> date, nums |-> nums, mult |-> mult, cols |-> cols, pad |-> pad, cr |-> cr]

Field(r, value) ==
    <<QUOTE>> \o (IF r.pad THEN <<" ">> \o value \o <<" ">> ELSE value) \o <<QUOTE>>

RowLine(r) ==
    LET body == IF r.cols = 0 THEN <<>>
                ELSE Field(r, r.date) \o <<",">> \o Field(r, r.nums)
                     \o (IF r.cols >= 3 THEN <<",">> \o Field(r, r.mult) ELSE <<>>)
    IN  (IF r.pad THEN <<" ">> \o body \o <<" ">> ELSE body)
        \o (IF r.cr THEN <<"\r", "\n">> ELSE <<"\n">>)

RECURSIVE RowLines(_)
RowLines(rs) == IF rs = <<>> THEN <<>> ELSE RowLine(rs[1]) \o RowLines(Tail(rs))

CsvText(rs) == Header \o <<"\n">> \o RowLines(rs)

-----------------------------------------------------------------------------
(* pickAnalysis, App.jsx:183-252 *)

SetOf(s) == {s[i] : i \in 1..Len(s)}

\* lines 184-194
RECURSIVE numericMainOf(_)
numericMainOf(pick) ==
    IF pick = <<>> THEN <<>>
    ELSE LET numeric == Number(pick[1])
         IN  (IF /\ IsFinite(numeric)
                 /\ numeric.v >= MAIN_RANGE_min * 10
                 /\ numeric.v <= MAIN_RANGE_max * 10
              THEN <<numeric.v>> ELSE <<>>) \o numericMainOf(Tail(pick))

\* lines 220-227
annotate(draw, mainSet, powerballNumeric) ==
    [dateMs         |-> draw.dateMs,
     dateLabel      |-> draw.dateLabel,
     mainNumbers    |-> draw.mainNumbers,
     powerball      |-> draw.powerball,
     multiplier     |-> draw.multiplier,
     mainSum        |-> draw.mainSum,
     mainMatches    |-> Cardinality({i \in 1..Len(draw.mainNumbers) :
                                        draw.mainNumbers[i] \in mainSet}),
     powerballMatch |-> (draw.powerball = powerballNumeric)]

\* isJackpot without the Powerball.
isJackpot_mainOnly(draw) == draw.mainMatches = 5

\* line 229
isJackpot(draw) == draw.mainMatches = 5 /\ draw.powerballMatch

Bit(b) == IF b THEN 1 ELSE 0

\* compareBest without the date as the last key.
compareBest_noDate(a, b) ==
    IF b.mainMatches # a.mainMatches THEN b.mainMatches - a.mainMatches
    ELSE Bit(b.powerballMatch) - Bit(a.powerballMatch)

\* The comparator of lines 233-239.
compareBest(a, b) ==
    IF b.mainMatches # a.mainMatches THEN b.mainMatches - a.mainMatches
    ELSE IF a.powerballMatch # b.powerballMatch
         THEN Bit(b.powerballMatch) - Bit(a.powerballMatch)
         ELSE b.dateMs - a.dateMs

\* .slice().sort(compareBest): a stable sort of a copy
sortBest(s) ==
    LET below(j, i) == LET c == compareBest(s[j], s[i]) IN c < 0 \/ (c = 0 /\ j < i)
        rank == [i \in 1..Len(s) |-> Cardinality({j \in 1..Len(s) : below(j, i)})]
    IN  [p \in 1..Len(s) |-> s[CHOOSE i \in 1..Len(s) : rank[i] = p - 1]]

\* line 198
hasDuplicatesOf_never(numericMain) == FALSE

hasDuplicatesOf(numericMain) == Cardinality(SetOf(numericMain)) # Len(numericMain)

pickAnalysisOf(ds, main, pb) ==
    LET numericMain      == numericMainOf(main)
        powerballNumeric == Number(pb)
        hasFullSet       == Len(numericMain) = 5
        hasDuplicates    == hasDuplicatesOf(numericMain)
        validPowerball   == /\ IsFinite(powerballNumeric)
                            /\ powerballNumeric.v >= POWERBALL_RANGE_min * 10
                            /\ powerballNumeric.v <= POWERBALL_RANGE_max * 10
        ready            == hasFullSet /\ ~hasDuplicates /\ validPowerball /\ Len(ds) > 0
        mainSet          == SetOf(numericMain)
        annotatedDraws   == [i \in 1..Len(ds) |-> annotate(ds[i], mainSet, powerballNumeric.v)]
        sorted           == sortBest(annotatedDraws)
    IN  IF ~ready
        THEN [ready            |-> FALSE,
              hasDuplicates    |-> hasDuplicates,
              missingMain      |-> ~hasFullSet,
              invalidPowerball |-> ~validPowerball,
              jackpotHits      |-> <<>>,
              bestDraws        |-> <<>>,
              numericMain      |-> numericMain,
              powerballNumeric |-> IF validPowerball THEN powerballNumeric ELSE Null]
        ELSE [ready            |-> TRUE,
              hasDuplicates    |-> FALSE,
              missingMain      |-> FALSE,
              invalidPowerball |-> FALSE,
              jackpotHits      |-> SelectSeq(annotatedDraws, isJackpot),
              bestDraws        |-> SubSeq(sorted, 1, Min(3, Len(sorted))),
              numericMain      |-> numericMain,
              powerballNumeric |-> powerballNumeric]

pickAnalysis == pickAnalysisOf(draws, mainPick, powerballPick)

\* line 272
showResults == pickAnalysis.ready /\ isTicketChecked

\* The picker is on the page only under status === 'ready' (line 295).
pickerRendered == isMounted /\ status = "ready"

\* pickerStatusOf with each reason shown on its own flag.
pickerStatusOf_noPrecedence(analysis) ==
    IF analysis.ready THEN {}
    ELSE {r \in {"duplicates", "missingMain", "invalidPowerball"} :
            \/ r = "duplicates" /\ analysis.hasDuplicates
            \/ r = "missingMain" /\ analysis.missingMain
            \/ r = "invalidPowerball" /\ analysis.invalidPowerball}

\* The reasons shown in picker__status, lines 417-425.
pickerStatusOf(analysis) ==
    IF analysis.ready THEN {}
    ELSE {r \in {"duplicates", "missingMain", "invalidPowerball"} :
            \/ r = "duplicates" /\ analysis.hasDuplicates
            \/ r = "missingMain" /\ ~analysis.hasDuplicates /\ analysis.missingMain
            \/ r = "invalidPowerball" /\ ~analysis.hasDuplicates
                  /\ ~analysis.missingMain /\ analysis.invalidPowerball}

pickerStatus == IF pickerRendered THEN pickerStatusOf(pickAnalysis) ELSE {}

-----------------------------------------------------------------------------
(* Inputs *)

\* The most data rows a file of ParseSpec holds.
MaxRows == 3

\* The draw history served to the application, not in date order: the
\* initial pick drawn twice, near misses, and one row written twice.
HistoryRows ==
    << Row(DATE_C, NUMS_JACKPOT, <<"2">>, 3, FALSE, FALSE),
       Row(DATE_B, NUMS_FOUR_PB, <<"3">>, 3, FALSE, FALSE),
       Row(DATE_A, NUMS_JACKPOT, <<>>, 3, FALSE, FALSE),
       Row(DATE_B, NUMS_LOW_HIGH, <<"2">>, 3, FALSE, FALSE),
       Row(DATE_A, NUMS_THREE_PB, <<>>, 2, TRUE, TRUE),
       Row(DATE_B, NUMS_FOUR_PB, <<"3">>, 3, FALSE, FALSE) >>

\* The bodies response.text() resolves with: the history, a file with only
\* its header, and a file whose only row has no date.
AppTexts ==
    { CsvText(HistoryRows),
      CsvText(<<>>),
      CsvText(<<Row(<<>>, NUMS_JACKPOT, <<"2">>, 3, FALSE, FALSE)>>) }

\* The values event.target.value takes.
RawInputs ==
    { <<>>, <<" ">>, <<"x">>, INFINITY_LITERAL,
      <<"-", "3">>, <<"0", ".", "5">>, <<"7">>, <<"7", ".", "9">>, <<"7", "0">> }

\* The rows a file of ParseSpec is made of.
RowKinds ==
    { Row(DATE_B, NUMS_JACKPOT, <<"2">>, 3, FALSE, FALSE),
      Row(DATE_A, NUMS_FOUR_PB, <<>>, 3, TRUE, FALSE),
      Row(DATE_A, NUMS_FOUR, <<>>, 2, FALSE, TRUE),
      Row(DATE_C, NUMS_MIXED, <<"3">>, 3, FALSE, FALSE),
      Row(<<>>, NUMS_JACKPOT, <<"2">>, 3, FALSE, FALSE),
      Row(NotADate, NUMS_JACKPOT, <<"2">>, 3, FALSE, FALSE),
      Row(DATE_A, <<>>, <<"2">>, 3, FALSE, FALSE),
      Row(DATE_B, NUMS_TEXT, <<"2">>, 3, FALSE, FALSE),
      Row(DATE_A, NUMS_TEXT_GAP, <<>>, 3, FALSE, FALSE),
      Row(<<>>, <<>>, <<>>, 0, TRUE, FALSE) }

RowSeqs == UNION {[1..n -> RowKinds] : n \in 0..MaxRows}

-----------------------------------------------------------------------------
(* The application: App, App.jsx:76-273 *)

NoResponse == [outcome |-> "pending", text |-> <<>>]

Init ==
    /\ draws = <<>>
    /\ status = "loading"
    /\ mainPick = INITIAL_MAIN_PICK
    /\ powerballPick = INITIAL_POWERBALL_PICK
    /\ isTicketChecked = FALSE
    /\ isMounted = TRUE
    /\ pc = "fetch"
    /\ response = NoResponse
    /\ rows = <<>>
    /\ parsed = <<>>
    /\ pstep = "input"

\* await fetch(CSV_URL) resolves with response.ok: fetchData goes on to
\* await response.text() (lines 88-93).
FetchResolveOk ==
    /\ pc = "fetch"
    /\ pc' = "text"
    /\ response' = [response EXCEPT !.outcome = "ok"]
    /\ UNCHANGED <<draws, status, mainPick, powerballPick, isTicketChecked,
                   isMounted, parseVars>>

\* The catch block, lines 100-103.
catch ==
    /\ status' = IF isMounted THEN "error" ELSE status
    /\ pc' = "done"
    /\ UNCHANGED <<draws, mainPick, powerballPick, isTicketChecked, isMounted,
                   parseVars>>

\* await fetch(CSV_URL) resolves with !response.ok: line 90 throws.
FetchResolveNotOk ==
    /\ pc = "fetch"
    /\ response' = [response EXCEPT !.outcome = "notOk"]
    /\ catch

\* The awaited promise rejects: fetch(CSV_URL) at line 88, or
\* response.text() at line 93.
Reject ==
    /\ pc \in {"fetch", "text"}
    /\ response' = [response EXCEPT !.outcome = "rejected"]
    /\ catch

\* TextResolve with 'ready' set whatever the number of records.
TextResolve_alwaysReady(csvText) ==
    /\ pc = "text"
    /\ pc' = "done"
    /\ response' = [response EXCEPT !.text = csvText]
    /\ IF isMounted
       THEN draws' = parseCsv(csvText) /\ status' = "ready"
       ELSE UNCHANGED <<draws, status>>
    /\ UNCHANGED <<mainPick, powerballPick, isTicketChecked, isMounted,
                   parseVars>>

\* TextResolve without the isMounted guard of line 96.
TextResolve_unguarded(csvText) ==
    /\ pc = "text"
    /\ pc' = "done"
    /\ response' = [response EXCEPT !.text = csvText]
    /\ draws' = parseCsv(csvText)
    /\ status' = IF Len(parseCsv(csvText)) > 0 THEN "ready" ELSE "empty"
    /\ UNCHANGED <<mainPick, powerballPick, isTicketChecked, isMounted,
                   parseVars>>

\* await response.text() resolves: lines 93-99.
TextResolve(csvText) ==
    /\ pc = "text"
    /\ pc' = "done"
    /\ response' = [response EXCEPT !.text = csvText]
    /\ LET parsedData == parseCsv(csvText)
       IN  IF isMounted
           THEN /\ draws' = parsedData
                /\ status' = IF Len(parsedData) > 0 THEN "ready" ELSE "empty"
           ELSE UNCHANGED <<draws, status>>
    /\ UNCHANGED <<mainPick, powerballPick, isTicketChecked, isMounted,
                   parseVars>>

\* The effect's cleanup, lines 107-109.
Cleanup ==
    /\ isMounted
    /\ isMounted' = FALSE
    /\ UNCHANGED <<draws, status, mainPick, powerballPick, isTicketChecked,
                   pc, response, parseVars>>

\* handleMainInputChange without setIsTicketChecked(false).
handleMainInputChange_noReset(index, rawValue) ==
    /\ pickerRendered
    /\ mainPick' = [i \in 1..Len(mainPick) |->
                       IF i = index THEN clampInput(rawValue, MAIN_RANGE_max)
                       ELSE mainPick[i]]
    /\ UNCHANGED <<draws, status, powerballPick, isTicketChecked, isMounted, pc,
                   response, parseVars>>

\* lines 254-258
handleMainInputChange(index, rawValue) ==
    /\ pickerRendered
    /\ LET nextValue == clampInput(rawValue, MAIN_RANGE_max)
       IN  /\ isTicketChecked' = FALSE
           /\ mainPick' = [i \in 1..Len(mainPick) |->
                              IF i = index THEN nextValue ELSE mainPick[i]]
    /\ UNCHANGED <<draws, status, powerballPick, isMounted, pc, response, parseVars>>

\* lines 260-264
handlePowerballChange(rawValue) ==
    /\ pickerRendered
    /\ LET nextValue == clampInput(rawValue, POWERBALL_RANGE_max)
       IN  /\ isTicketChecked' = FALSE
           /\ powerballPick' = nextValue
    /\ UNCHANGED <<draws, status, mainPick, isMounted, pc, response, parseVars>>

\* lines 266-270.  The button is disabled while the analysis is not ready;
\* the handler checks again.
handleCheckTicket ==
    /\ pickerRendered
    /\ isTicketChecked' = IF pickAnalysis.ready THEN TRUE ELSE isTicketChecked
    /\ UNCHANGED <<draws, status, mainPick, powerballPick, isMounted, pc,
                   response, parseVars>>

Next ==
    \/ FetchResolveOk
    \/ FetchResolveNotOk
    \/ Reject
    \/ \E csvText \in AppTexts : TextResolve(csvText)
    \/ Cleanup
    \/ \E index \in 1..5, rawValue \in RawInputs : handleMainInputChange(index, rawValue)
    \/ \E rawValue \in RawInputs : handlePowerballChange(rawValue)
    \/ handleCheckTicket

Spec == Init /\ [][Next]_vars

-----------------------------------------------------------------------------
(* parseCsv applied to every file of up to MaxRows rows *)

ParseInit ==
    /\ draws = <<>>
    /\ status = "loading"
    /\ mainPick = INITIAL_MAIN_PICK
    /\ powerballPick = INITIAL_POWERBALL_PICK
    /\ isTicketChecked = FALSE
    /\ isMounted = TRUE
    /\ pc = "fetch"
    /\ response = NoResponse
    /\ rows \in RowSeqs
    /\ parsed = <<>>
    /\ pstep = "input"

Parse ==
    /\ pstep = "input"
    /\ parsed' = parseCsv(CsvText(rows))
    /\ pstep' = "parsed"
    /\ UNCHANGED <<rows, appVars>>

ParseNext == Parse

ParseSpec == ParseInit /\ [][ParseNext]_vars

-----------------------------------------------------------------------------
(* C1.  The load status *)

\* The status the claim gives the outcome of a load.
StatusOfOutcome(resp) ==
    IF resp.outcome \in {"rejected", "notOk"} THEN "error"
    ELSE IF Len(parseCsv(resp.text)) >= 1 THEN "ready" ELSE "empty"

C1_StatusStates ==
    /\ pc # "done" => status = "loading"
    /\ status \in {"ready", "empty"} => response.outcome = "ok" /\ pc = "done"
    /\ status = "error" => response.outcome \in {"rejected", "notOk"} /\ pc = "done"
    /\ pc = "done" /\ isMounted => status # "loading"
    /\ status = "ready" <=> draws # <<>>

\* C1: the status starts as 'loading'; while the view is mounted it becomes
\* 'ready' exactly when the load succeeded with at least one record, 'empty'
\* exactly when it succeeded with none, 'error' exactly when the awaited
\* promise rejected or the response was not ok; once it is no longer
\* 'loading' it never changes; and it is 'ready' exactly when draws is
\* non-empty.
C1_LoadStatus ==
    /\ status = "loading"
    /\ []C1_StatusStates
    /\ [][status # "loading" => status' = status]_vars
    /\ [][pc # "done" /\ pc' = "done" /\ isMounted
            => status' = StatusOfOutcome(response')]_vars

\* C1's witness: the load succeeded with records while the view was mounted.
C1_Witness ==
    /\ isMounted /\ pc = "done" /\ response.outcome = "ok"
    /\ status = "ready" /\ Len(draws) >= 1

-----------------------------------------------------------------------------
(* C2.  Teardown before the response *)

\* C2: once the view is torn down neither draws nor status is written,
\* whatever the load's outcome; the teardown does not abort the request:
\* it leaves the request in flight as it was, and every later step of an
\* unsettled request is the request's own next step.
C2_IgnoredAfterTeardown ==
    /\ [][~isMounted => draws' = draws /\ status' = status]_vars
    /\ [][isMounted /\ ~isMounted' => pc' = pc /\ response' = response]_vars
    /\ [][~isMounted /\ pc # "done" => pc' # pc /\ ~isMounted']_vars

\* C2's witness: a body with records arrived after the teardown and was
\* ignored.
C2_Witness ==
    /\ ~isMounted /\ pc = "done" /\ response.outcome = "ok"
    /\ Len(parseCsv(response.text)) >= 1
    /\ status = "loading" /\ draws = <<>>

-----------------------------------------------------------------------------
(* C3, C4.  parseCsv *)

\* The rows' fields as the claims read them: a date field is parseable when
\* it is one of the file's month/day/year dates, and a winning-numbers field
\* holds a numeric value when one of its space-separated words is a numeral.
IsNumeral(word) == word # <<>> /\ AllDigits(word)

HasDate(r) == r.cols >= 2 /\ r.date # <<>> /\ DateParse(r.date).valid

HasNumericValue(r) ==
    /\ r.cols >= 2
    /\ r.nums # <<>>
    /\ \E i \in 1..Len(Split(r.nums, <<" ">>)) : IsNumeral(Split(r.nums, <<" ">>)[i])

YieldsRecord(r) == HasDate(r) /\ HasNumericValue(r)

RowTime(r) == GetTime(DateParse(r.date))

\* C3: parseCsv's result is sorted non-decreasing by dateMs whatever the
\* order of the rows, and rows with equal dates are all kept: for every
\* date the result holds at least as many records as the file holds
\* well-formed rows of that date.
C3_SortedNoDedup ==
    pstep = "parsed" =>
        /\ \A i, j \in 1..Len(parsed) : i < j => parsed[i].dateMs <= parsed[j].dateMs
        /\ \A k \in 1..Len(rows) :
              YieldsRecord(rows[k]) =>
                  Cardinality({i \in 1..Len(parsed) : parsed[i].dateMs = RowTime(rows[k])})
                    >= Cardinality({j \in 1..Len(rows) :
                          YieldsRecord(rows[j]) /\ RowTime(rows[j]) = RowTime(rows[k])})

\* C3's witness: three well-formed rows, out of date order, two of one date.
C3_Witness ==
    /\ pstep = "parsed"
    /\ Len(rows) = 3 /\ \A k \in 1..3 : YieldsRecord(rows[k])
    /\ RowTime(rows[1]) > RowTime(rows[2]) /\ RowTime(rows[1]) = RowTime(rows[3])
    /\ Len(parsed) = 3 /\ parsed[2].dateMs = parsed[3].dateMs

\* C4: the header is discarded, a row without a parseable date or without a
\* numeric value in its winning-numbers field is dropped, every other row
\* yields exactly one record, and every record is whole.
C4_DropsMalformedRows ==
    pstep = "parsed" =>
        /\ Len(parsed) = Cardinality({k \in 1..Len(rows) : YieldsRecord(rows[k])})
        /\ Len(parsed) <= Len(rows)
        /\ \A i \in 1..Len(parsed) :
              \E k \in 1..Len(rows) :
                  YieldsRecord(rows[k]) /\ parsed[i].dateMs = RowTime(rows[k])

-----------------------------------------------------------------------------
(* C5, C6.  Validity of the pick *)

\* The pick as the claims read it.
IsValidEntry(entry, max) ==
    /\ entry # <<>>
    /\ IsFinite(Number(entry))
    /\ Number(entry).v >= 10 /\ Number(entry).v <= max * 10

EnteredMain == {i \in 1..Len(mainPick) : IsValidEntry(mainPick[i], MAIN_RANGE_max)}

MainDuplicated ==
    \E i, j \in EnteredMain : i # j /\ Number(mainPick[i]).v = Number(mainPick[j]).v

FewerThanFive == Cardinality(EnteredMain) < 5

PowerballInvalid == ~IsValidEntry(powerballPick, POWERBALL_RANGE_max)

PickMeetsConditions == ~MainDuplicated /\ ~FewerThanFive /\ ~PowerballInvalid

\* C5 as stated: the evaluation is ready exactly when the pick has five
\* distinct valid main numbers and a valid Powerball.
C5_ReadyIffPickValid == pickAnalysis.ready <=> PickMeetsConditions

\* C5 as amended: the evaluation is ready exactly when the pick has five
\* distinct valid main numbers and a valid Powerball and at least one draw
\* has been loaded.
C5_ReadyIffPickValidAndDraws ==
    pickAnalysis.ready <=> (PickMeetsConditions /\ Len(draws) > 0)

\* C5's witness: draws are loaded and an edited pick is ready.
C5_Witness ==
    /\ Len(draws) > 0 /\ pickAnalysis.ready
    /\ mainPick # INITIAL_MAIN_PICK /\ powerballPick # INITIAL_POWERBALL_PICK

ExpectedReason ==
    IF MainDuplicated THEN "duplicates"
    ELSE IF FewerThanFive THEN "missingMain" ELSE "invalidPowerball"

-----------------------------------------------------------------------------
(* C7, C9.  Jackpot hits and best draws *)

PickSet == {Number(mainPick[i]).v : i \in EnteredMain}

MainMatches(draw, pickSet) ==
    Cardinality({i \in 1..Len(draw.mainNumbers) : draw.mainNumbers[i] \in pickSet})

\* The draw d with its two match fields, for the current pick.
Annotated(d, pickSet, pb) ==
    [dateMs |-> d.dateMs, dateLabel |-> d.dateLabel, mainNumbers |-> d.mainNumbers,
     powerball |-> d.powerball, multiplier |-> d.multiplier, mainSum |-> d.mainSum,
     mainMatches |-> MainMatches(d, pickSet), powerballMatch |-> (d.powerball = pb)]

AnnotatedDraws ==
    LET pickSet == PickSet
        pb      == Number(powerballPick).v
    IN  [i \in 1..Len(draws) |-> Annotated(draws[i], pickSet, pb)]

IsHit(rec) == rec.mainMatches = 5 /\ rec.powerballMatch

\* C7: for a ready pick jackpotHits is the subsequence, in ascending date
\* order, of the draws with five main matches and the Powerball; so a draw
\* equal to the pick makes jackpotHits non-empty.
C7_JackpotHits ==
    LET analysis == pickAnalysis
        all      == AnnotatedDraws
        hits     == analysis.jackpotHits
        hitAt    == {i \in 1..Len(all) : IsHit(all[i])}
        nth(n)   == CHOOSE i \in hitAt : Cardinality({j \in hitAt : j < i}) = n - 1
    IN  analysis.ready =>
            /\ Len(hits) = Cardinality(hitAt)
            /\ \A n \in 1..Len(hits) : hits[n] = all[nth(n)]
            /\ \A m, n \in 1..Len(hits) : m < n => hits[m].dateMs <= hits[n].dateMs
            /\ (\E i \in 1..Len(draws) :
                    /\ Len(draws[i].mainNumbers) = 5
                    /\ SetOf(draws[i].mainNumbers) = PickSet
                    /\ draws[i].powerball = Number(powerballPick).v)
                 => Len(hits) >= 1

\* C7's witness: a ready pick with two jackpot hits among draws that are not
\* all hits.
C7_Witness ==
    LET analysis == pickAnalysis
    IN  /\ analysis.ready
        /\ Len(analysis.jackpotHits) = 2
        /\ Len(draws) > 2

\* a ranks strictly ahead of b
RanksAhead(a, b) ==
    \/ a.mainMatches > b.mainMatches
    \/ a.mainMatches = b.mainMatches /\ a.powerballMatch /\ ~b.powerballMatch
    \/ /\ a.mainMatches = b.mainMatches /\ a.powerballMatch = b.powerballMatch
       /\ a.dateMs > b.dateMs

Count(s, x) == Cardinality({i \in 1..Len(s) : s[i] = x})

C9_BestStates ==
    LET analysis == pickAnalysis
        all      == AnnotatedDraws
        best     == analysis.bestDraws
    IN  analysis.ready =>
            /\ Len(best) = Min(3, Len(draws))
            /\ \A k \in 1..Len(best) : Count(best, best[k]) <= Count(all, best[k])
            /\ \A k, l \in 1..Len(best) : k < l => ~RanksAhead(best[l], best[k])
            /\ \A j \in 1..Len(all) :
                  (\E k \in 1..Len(best) : RanksAhead(all[j], best[k]))
                     => Count(best, all[j]) = Count(all, all[j])

\* C9: for a ready pick bestDraws holds min(3, number of draws) of the
\* draws, in rank order (main matches descending, Powerball match first,
\* later date first), no draw left out ranks strictly ahead of one in it,
\* and draws keeps its order.
C9_BestDraws ==
    /\ []C9_BestStates
    /\ [][draws # <<>> => draws' = draws]_vars

\* C9's witness: more than three draws, and two of the best three tie on
\* main matches and Powerball and are ranked by date.
C9_Witness ==
    /\ Len(draws) > 3
    /\ LET best == pickAnalysis.bestDraws
       IN  /\ Len(best) = 3
           /\ best[1].mainMatches = best[2].mainMatches
           /\ best[1].powerballMatch = best[2].powerballMatch
           /\ best[1].dateMs > best[2].dateMs
           /\ best[2].mainMatches > best[3].mainMatches

-----------------------------------------------------------------------------
(* C8.  clampInput and the entries of the pick *)

IsDecimalIn(str, max) == \E k \in 1..max : str = NatToString(k)

TruncateTowardZero(v) ==
    IF v >= 0 THEN (v \div 10) * 10 ELSE 0 - (((0 - v) \div 10) * 10)

\* What the claim gives for an input: empty for the empty string and for a
\* string that is not a finite number, 1 below 1, max above max, and the
\* value without its fraction between them.
ExpectedClamp(raw, max) ==
    IF raw = <<>> \/ ~IsFinite(Number(raw)) THEN <<>>
    ELSE LET v == Number(raw).v
         IN  IF v < 10 THEN NatToString(1)
             ELSE IF v > max * 10 THEN NatToString(max)
             ELSE NatToString(TruncateTowardZero(v) \div 10)

IsEmptyOrIntegerIn(entry, max) ==
    \/ entry = <<>>
    \/ /\ IsFinite(Number(entry))
       /\ Number(entry).v % 10 = 0
       /\ Number(entry).v \div 10 \in 1..max

\* The strings clampInput is applied to: the handlers' inputs and more
\* numerals at and around the bounds.
ClampInputs ==
    RawInputs \cup
    { <<"0">>,
      <<"1">>,
      <<"2", "6">>,
      <<"2", "7">>,
      <<"6", "9">>,
      <<"1", "0", "0">>,
      <<"-", "0", ".", "5">>,
      <<"2", "6", ".", "9">>,
      <<"6", "9", ".", "9">>,
      <<".", "5">>,
      <<"7", ".">>,
      <<"+", "7">>,
      <<"-", "7">>,
      <<"1", "x">>,
      <<"-">>,
      <<"-", "I", "n", "f", "i", "n", "i", "t", "y">> }

-----------------------------------------------------------------------------
(* C10.  The checked flag *)

PickUnchanged == mainPick' = mainPick /\ powerballPick' = powerballPick

====
